---- MODULE Spec2Model ----
(***************************************************************************)
(* Reach.get_hydroline of water_reach_tools (reach.py): the resolver that  *)
(* snaps the put-in with the EPA WATERS service, traces downstream, and    *)
(* falls back to the Esri hydrology services.                              *)
(*                                                                         *)
(* Geometry is modelled on a small integer grid.  A point is <<x, y>>; the *)
(* river runs along y = 0 with x growing downstream, and a polyline is the *)
(* sequence of its vertices.  The external services (point indexing,       *)
(* navigation, watershed, trace_downstream) and the geometry library are   *)
(* nondeterministic: each call may throw or give any answer of its set.    *)
(* Python None is "None" for text fields and NoneNum for numeric fields.   *)
(* The names pd / active_gis used by the module are taken as importable.   *)
(***************************************************************************)
EXTENDS Integers, Sequences, FiniteSets, TLC

\* ---------------------------------------------------------------- bounds
MaxX == 3            \* the grid spans x in 0..MaxX
MaxResolves == 2     \* get_hydroline calls made on the one reach
MaxTraceCalls == 7   \* cap on navigation calls counted in one resolve
MaxGauge == 20       \* gauge observations are None or 0..MaxGauge
MaxPosts == 8        \* posts of one geometry request that are followed

\* ------------------------------------------------------ program constants
max_attempts == 5    \* reach.py:1076
attempts_hydro == 10 \* reach.py:1149  (attempts = 10)

NoneNum == 0 - 1
NoneGeom == [type |-> "None"]

NOTE_MISSING == "Reach does not appear to have both a put-in and take-out location defined."
NOTE_TAKEOUT == "Takeout could not be located using EPS's WATERS service"
NOTE_PUTIN == "Put-in could not be located with neither WATERS nor Esri Hydrology services."
NOTE_TRACE == "The reach could not be trace with neither the EPA's WATERS service nor the Esri Hydrology services."
TRACE_WATERS == "EPA WATERS NHD Plus v2"
TRACE_HYDRO == "ArcGIS Online Hydrology Services"

VARIABLES
    reach_points,    \* Reach._reach_points: sequence of ReachPoint records
    geometry,        \* Reach._geometry
    tracing_method,  \* Reach.tracing_method
    error,           \* Reach.error: "None" or "True"
    notes,           \* Reach.notes
    pc,              \* position of the get_hydroline call
    trace_status,    \* local trace_status / the returned value
    attempts,        \* local attempts of the WATERS loop
    fail_count,      \* local fail_count of the hydrology loop
    putin_fs,        \* local putin_fs: put-in location captured for hydrology
    trace_resp,      \* local trace_resp of the hydrology loop
    trace_polyline,  \* local trace_polyline of the WATERS loop
    resolves,        \* number of get_hydroline calls started
    hist,            \* what this resolve has done so far (observation only)
    http,            \* the HTTP helper call under way and its loop variables
    difficulty,      \* Reach.difficulty_minimum / _maximum / _outlier and the parse call
    gauge,           \* Reach.gauge_observation, gauge_r0 .. gauge_r9 and the stage read
    reach_point,     \* a ReachPoint object and the last assignment made to it
    set_call,        \* the last put-in / take-out assignment made to a Reach
    split_call,      \* the arguments and the result of a split / trim call
    geometry_request,\* the _make_geometry_request call under way
    workers,         \* the worker in view and the memory of the other worker
    replay           \* the answers given during the first resolve of a reach

vars == <<reach_points, geometry, tracing_method, error, notes, pc, trace_status,
          attempts, fail_count, putin_fs, trace_resp, trace_polyline, resolves, hist,
          http, difficulty, gauge, reach_point,
          set_call, split_call, geometry_request, workers, replay>>

\* the variables of get_hydroline, and those of the other components
resolver_vars == <<reach_points, geometry, tracing_method, error, notes, pc, trace_status,
                   attempts, fail_count, putin_fs, trace_resp, trace_polyline, resolves,
                   hist>>
later_vars == <<set_call, split_call, geometry_request, workers, replay>>
helper_vars == <<http, difficulty, gauge, reach_point, later_vars>>

\* Python None where a string is expected; strings that are taken apart are
\* sequences of one-character strings, so '' is << >>
NoneStr == <<"None">>

\* no HTTP helper has been called
HttpIdle ==
    [call |-> "None", state |-> "idle", attempts |-> 0, status_code |-> 0,
     resp |-> "None", requests |-> 0, all_failed |-> TRUE, result |-> "None",
     exception |-> "None"]

\* Reach.__init__ (reach.py:319-321): the three difficulty fields are ''
DifficultyIdle ==
    [difficulty_combined |-> NoneStr,
     form |-> [kind |-> "None", a |-> NoneStr, b |-> NoneStr, c |-> NoneStr],
     state |-> "idle",
     difficulty_minimum |-> << >>, difficulty_maximum |-> << >>,
     difficulty_outlier |-> << >>,
     before |-> [difficulty_minimum |-> << >>, difficulty_maximum |-> << >>,
                 difficulty_outlier |-> << >>]]

\* no assignment, split or geometry request made, one worker only
LaterAtRest ==
    /\ set_call = "None"
    /\ split_call = "None"
    /\ geometry_request = "None"
    /\ workers = "None"
    /\ replay = "None"

HelpersAtRest ==
    /\ LaterAtRest
    /\ http = HttpIdle
    /\ difficulty = DifficultyIdle
    /\ gauge = "None"
    /\ reach_point = "None"

\* ------------------------------------------------------------- geometry
Pt(x, y) == <<x, y>>

\* the straight polyline along the river from x = a to x = b
Line(a, b) == [type |-> "Polyline", paths |-> [i \in 1..(b - a + 1) |-> Pt(a + i - 1, 0)],
               smoothed |-> FALSE]

First(path) == path[1]
Last(path) == path[Len(path)]

Clamp(v, lo, hi) == IF v < lo THEN lo ELSE IF v > hi THEN hi ELSE v

\* Point.snap_to_line: the closest location along the line
snap_to_line(pt, line) ==
    Pt(Clamp(pt[1], First(line.paths)[1], Last(line.paths)[1]), 0)

OnInterior(pt, line) ==
    /\ pt[2] = 0
    /\ First(line.paths)[1] < pt[1]
    /\ pt[1] < Last(line.paths)[1]

SelectBefore(path, x) == SelectSeq(path, LAMBDA v : v[1] < x)
SelectAfter(path, x) == SelectSeq(path, LAMBDA v : v[1] > x)

\* Polyline.split_at_point: shapely.ops.split gives the two parts when the point
\* is interior to the line and the unsplit line alone otherwise
split_at_point(line, pt) ==
    IF OnInterior(pt, line)
    THEN << [line EXCEPT !.paths = Append(SelectBefore(line.paths, pt[1]), pt)],
            [line EXCEPT !.paths = <<pt>> \o SelectAfter(line.paths, pt[1])] >>
    ELSE << line >>

\* variants of trim_at_point: the part after the point instead of the part
\* before it; no geometry when the line is not split
trim_at_point_last(line, pt) ==
    split_at_point(line, pt)[Len(split_at_point(line, pt))]

trim_at_point_none(line, pt) ==
    IF OnInterior(pt, line) THEN split_at_point(line, pt)[1] ELSE NoneGeom

trim_at_point(line, pt) == split_at_point(line, pt)[1]

\* Geometry.coordinates().size of a two-dimensional single-path polyline
CoordinatesSize(line) == 2 * Len(line.paths)

\* _smooth_geometry: densify, spline and simplify through the geometry service;
\* the vertices it produces are not computed, the result is marked as smoothed
smooth_geometry(line) == [line EXCEPT !.smoothed = TRUE]

\* ---------------------------------------------------------- reach points
ReachPoint(subtype, geom) ==
    [point_type |-> "access", subtype |-> subtype, geometry |-> geom,
     nhdplus_measure |-> NoneNum, nhdplus_reach_id |-> NoneNum]

\* Reach._get_access_list_by_type as the indices of the matching points
AccessIdx(pts, access_type) ==
    {i \in 1..Len(pts) : pts[i].subtype = access_type /\ pts[i].point_type = "access"}

HasAccess(pts, access_type) == AccessIdx(pts, access_type) # {}

\* index of Reach.putin / Reach.takeout: the first point of the list of that type
FirstIdx(pts, access_type) ==
    CHOOSE i \in AccessIdx(pts, access_type) : \A j \in AccessIdx(pts, access_type) : i <= j

putin == reach_points[FirstIdx(reach_points, "putin")]
takeout == reach_points[FirstIdx(reach_points, "takeout")]

\* ReachPoint.snap_to_nhdplus applied to a point record with the answer of
\* WATERS.get_epa_snap_point; a not-found answer leaves every field as it was
snap_to_nhdplus(p, epa_point) ==
    IF epa_point.found
    THEN [p EXCEPT !.geometry = epa_point.geometry,
                   !.nhdplus_measure = epa_point.measure,
                   !.nhdplus_reach_id = epa_point.id]
    ELSE p

Located(p) == ~(p.nhdplus_measure = NoneNum \/ p.nhdplus_reach_id = NoneNum)


\* ------------------------------------------------- answers of the services
\* WATERS.get_epa_snap_point: False when the point is outside coverage, else
\* a point with the measure and ComID of its flowline; the request may throw
SnapPoints == {Pt(x, 0) : x \in 1..MaxX} \cup {Pt(MaxX, 1)}

SnapAnswers ==
    {[kind |-> "throw"], [kind |-> "ok", found |-> FALSE]}
    \cup {[kind |-> "ok", found |-> TRUE, geometry |-> g, measure |-> 1, id |-> 1] : g \in SnapPoints}

\* WATERS.get_downstream_navigation_polyline: the request or its decoding may
\* throw, a trace without flowlines is "zero", else the merged polyline
TraceAnswers ==
    {[kind |-> "throw"], [kind |-> "zero"]}
    \cup {[kind |-> "line", line |-> Line(a, MaxX)] : a \in 0..1}

\* variant of TraceRaises: a response without flowlines does not raise
TraceRaises_transport(tr) == tr.kind = "throw"

\* WATERS._epa_navigation_response_to_esri_polyline raises when the response
\* holds no flowlines; a failed request or decoding raises as well
TraceRaises(tr) == tr.kind \in {"throw", "zero"}

\* hydrology.watershed: throws, or answers with or without a snapped point
WatershedAnswers ==
    {[kind |-> "throw"], [kind |-> "ok", found |-> FALSE]}
    \cup {[kind |-> "ok", found |-> TRUE, geometry |-> Pt(x, 0)] : x \in 0..1}

\* hydrology.trace_downstream: throws, or a feature set with the traced line
\* and its DataResolution
NoResp == [kind |-> "None"]

HydroTraceAnswers ==
    {[kind |-> "throw"]}
    \cup {[kind |-> "ok", line |-> Line(a, MaxX), resolution |-> 1] : a \in 0..1}

\* ------------------------------------------------------------------ state
\* the points of a reach parsed from a record: any of the two accesses may be
\* absent; no point has been snapped yet
InitialReachPoints ==
    { <<>>,
      << ReachPoint("putin", Pt(0, 1)) >>,
      << ReachPoint("takeout", Pt(MaxX - 1, 1)) >>,
      << ReachPoint("putin", Pt(0, 1)), ReachPoint("takeout", Pt(MaxX - 1, 1)) >> }

\* Reach.__init__ gives no geometry and no tracing method; Reach.from_arcgis
\* loads the line and the tracing method stored by an earlier resolve
InitialLines ==
    { [geometry |-> NoneGeom, tracing_method |-> "None"],
      [geometry |-> Line(0, MaxX - 1), tracing_method |-> TRACE_WATERS] }

NewHist ==
    [called |-> FALSE, nTrace |-> 0, nZero |-> 0, nWatershed |-> 0, nHydroTrace |-> 0,
     putin_not_found |-> FALSE, retraced_after_zero |-> FALSE, served |-> FALSE,
     watershed_not_found |-> FALSE,
     geometry0 |-> geometry, tracing_method0 |-> tracing_method]

Init ==
    /\ reach_points \in InitialReachPoints
    /\ \E l \in InitialLines : geometry = l.geometry /\ tracing_method = l.tracing_method
    /\ error = "None"
    /\ notes = ""
    /\ pc = "idle"
    /\ trace_status = FALSE
    /\ attempts = 0
    /\ fail_count = 0
    /\ putin_fs = NoneGeom
    /\ trace_resp = NoResp
    /\ trace_polyline = NoneGeom
    /\ resolves = 0
    /\ hist = NewHist
    /\ HelpersAtRest

SetPoint(pts, access_type, p) == [pts EXCEPT ![FirstIdx(pts, access_type)] = p]

\* variant of MissingAccesses: "and" in the place of "or"
MissingAccesses_and(pts) == ~HasAccess(pts, "putin") /\ ~HasAccess(pts, "takeout")

\* "self.putin is None or self.takeout is None"
MissingAccesses(pts) == ~HasAccess(pts, "putin") \/ ~HasAccess(pts, "takeout")

\* variant of HydroLoopCond: "<=" in the place of "<"
HydroLoopCond_le(fc) == fc <= attempts_hydro

\* "while fail_count < attempts"
HydroLoopCond(fc) == fc < attempts_hydro

\* ------------------------------------------------------------ get_hydroline
\* entry of get_hydroline and the check for both accesses (lines 1049-1056)
GetHydroline ==
    /\ pc \in {"idle", "done", "raised"}
    /\ resolves < MaxResolves
    /\ resolves' = resolves + 1
    /\ hist' = NewHist
    /\ attempts' = 0
    /\ fail_count' = 0
    /\ putin_fs' = NoneGeom
    /\ trace_resp' = NoResp
    /\ trace_polyline' = NoneGeom
    /\ trace_status' = FALSE
    /\ IF MissingAccesses(reach_points)
       THEN /\ error' = "True"
            /\ notes' = NOTE_MISSING
            /\ pc' = "done"
       ELSE /\ pc' = "snap_putin"
            /\ UNCHANGED <<error, notes>>
    /\ UNCHANGED <<reach_points, geometry, tracing_method>>

\* self.putin.snap_to_nhdplus() and nhd_status (lines 1058-1072); the call is
\* outside every try block
SnapPutin(epa_point) ==
    /\ pc = "snap_putin"
    /\ hist' = [hist EXCEPT !.called = TRUE,
                            !.putin_not_found = (epa_point.kind = "ok" /\ ~epa_point.found)]
    /\ IF epa_point.kind = "throw"
       THEN /\ pc' = "raised"
            /\ UNCHANGED reach_points
       ELSE LET p == snap_to_nhdplus(putin, epa_point)
            IN /\ reach_points' = SetPoint(reach_points, "putin", p)
               /\ pc' = IF Located(p) THEN "waters_loop" ELSE "hydro_watershed"
    /\ UNCHANGED <<geometry, tracing_method, error, notes, trace_status, attempts,
                   fail_count, putin_fs, trace_resp, trace_polyline, resolves>>

\* one pass of the body of "while attempts < max_attempts" (lines 1078-1114):
\* the trace, the snap of the take-out onto the line, its re-snap through
\* WATERS and the trim; whatever throws is caught and counted as an attempt
WatersAttempt(tr, geom_ok, epa_point, trim_ok) ==
    /\ pc = "waters_loop"
    /\ attempts < max_attempts
    /\ hist.nTrace < MaxTraceCalls
    /\ LET traced == tr.kind = "line"
           snapped == traced /\ geom_ok
           to1 == IF snapped
                  THEN [takeout EXCEPT !.geometry = snap_to_line(takeout.geometry, tr.line)]
                  ELSE takeout
           resnapped == snapped /\ epa_point.kind = "ok"
           to2 == IF resnapped THEN snap_to_nhdplus(to1, epa_point) ELSE to1
           located == resnapped /\ Located(to2)
           success == located /\ trim_ok
           threw == \/ TraceRaises(tr)
                    \/ traced /\ ~resnapped
                    \/ located /\ ~trim_ok
           attempts1 == IF threw THEN attempts + 1 ELSE attempts
       IN /\ reach_points' = SetPoint(reach_points, "takeout", to2)
          /\ trace_polyline' = IF traced THEN tr.line ELSE trace_polyline
          /\ attempts' = attempts1
          /\ hist' = [hist EXCEPT !.called = TRUE,
                                  !.nTrace = @ + 1,
                                  !.nZero = IF tr.kind = "zero" THEN @ + 1 ELSE @,
                                  !.retraced_after_zero = @ \/ hist.nZero > 0,
                                  !.served = resnapped /\ epa_point.found /\ trim_ok]
          /\ IF resnapped /\ ~located
             THEN /\ error' = "True"
                  /\ notes' = NOTE_TAKEOUT
             ELSE UNCHANGED <<error, notes>>
          /\ IF success
             THEN /\ geometry' = trim_at_point(tr.line, to2.geometry)
                  /\ trace_status' = TRUE
                  /\ tracing_method' = TRACE_WATERS
                  /\ pc' = "done"
             ELSE /\ trace_status' = FALSE
                  /\ pc' = IF attempts1 < max_attempts THEN "waters_loop" ELSE "hydro_watershed"
                  /\ UNCHANGED <<geometry, tracing_method>>
    /\ UNCHANGED <<fail_count, putin_fs, trace_resp, resolves>>

\* putin_fs and hydrology.watershed (lines 1117-1153).  Reach has no method
\* set_putin, so line 1141 raises AttributeError after the put-in was moved
HydroWatershed(w) ==
    /\ pc = "hydro_watershed"
    /\ putin_fs' = putin.geometry
    /\ hist' = [hist EXCEPT !.called = TRUE,
                            !.nWatershed = @ + 1,
                            !.watershed_not_found = (w.kind = "ok" /\ ~w.found)]
    /\ fail_count' = 0
    /\ trace_resp' = NoResp
    /\ IF w.kind = "throw"
       THEN /\ pc' = "raised"
            /\ UNCHANGED <<reach_points, error, notes>>
       ELSE IF w.found
       THEN /\ reach_points' = SetPoint(reach_points, "putin", [putin EXCEPT !.geometry = w.geometry])
            /\ pc' = "raised"
            /\ UNCHANGED <<error, notes>>
       ELSE /\ error' = "True"
            /\ notes' = NOTE_PUTIN
            /\ pc' = "hydro_loop"
            /\ UNCHANGED reach_points
    /\ UNCHANGED <<geometry, tracing_method, trace_status, attempts, trace_polyline, resolves>>

\* one pass of "while fail_count < attempts" (lines 1156-1161)
HydroAttempt(r) ==
    /\ pc = "hydro_loop"
    /\ HydroLoopCond(fail_count)
    /\ hist' = [hist EXCEPT !.called = TRUE, !.nHydroTrace = @ + 1]
    /\ IF r.kind = "throw"
       THEN /\ fail_count' = fail_count + 1
            /\ pc' = IF HydroLoopCond(fail_count + 1) THEN "hydro_loop" ELSE "hydro_finish"
            /\ UNCHANGED trace_resp
       ELSE /\ trace_resp' = r
            /\ pc' = "hydro_finish"
            /\ UNCHANGED fail_count
    /\ UNCHANGED <<reach_points, geometry, tracing_method, error, notes, trace_status,
                   attempts, putin_fs, trace_polyline, resolves>>

\* the use of the hydrology trace and the final flagging (lines 1163-1201);
\* the snap, the trim and the smoothing are outside every try block
HydroFinish(snap_ok, trim_ok, smooth_ok) ==
    /\ pc = "hydro_finish"
    /\ IF trace_resp # NoResp /\ error # "True"
       THEN LET trace_geom == trace_resp.line
                to1 == [takeout EXCEPT !.geometry = snap_to_line(takeout.geometry, trace_geom)]
                line_geom == trim_at_point(trace_geom, to1.geometry)
                smooth == CoordinatesSize(line_geom) > 6
                ok == snap_ok /\ trim_ok /\ (smooth => smooth_ok)
            IN /\ reach_points' = IF snap_ok THEN SetPoint(reach_points, "takeout", to1)
                                             ELSE reach_points
               /\ IF ok
                  THEN /\ geometry' = IF smooth THEN smooth_geometry(line_geom) ELSE line_geom
                       /\ trace_status' = TRUE
                       /\ tracing_method' = TRACE_HYDRO
                       /\ pc' = "done"
                  ELSE /\ pc' = "raised"
                       /\ UNCHANGED <<geometry, trace_status, tracing_method>>
               /\ UNCHANGED <<error, notes>>
       ELSE /\ error' = "True"
            /\ notes' = NOTE_TRACE
            /\ pc' = "done"
            /\ UNCHANGED <<reach_points, geometry, trace_status, tracing_method>>
    /\ UNCHANGED <<attempts, fail_count, putin_fs, trace_resp, trace_polyline, resolves, hist>>

Next ==
    \/ GetHydroline /\ UNCHANGED helper_vars
    \/ \E epa_point \in SnapAnswers : SnapPutin(epa_point) /\ UNCHANGED helper_vars
    \/ \E tr \in TraceAnswers, geom_ok \in BOOLEAN, epa_point \in SnapAnswers, trim_ok \in BOOLEAN :
          WatersAttempt(tr, geom_ok, epa_point, trim_ok) /\ UNCHANGED helper_vars
    \/ \E w \in WatershedAnswers : HydroWatershed(w) /\ UNCHANGED helper_vars
    \/ \E r \in HydroTraceAnswers : HydroAttempt(r) /\ UNCHANGED helper_vars
    \/ \E snap_ok \in BOOLEAN, trim_ok \in BOOLEAN, smooth_ok \in BOOLEAN :
          HydroFinish(snap_ok, trim_ok, smooth_ok) /\ UNCHANGED helper_vars

Spec == Init /\ [][Next]_vars

\* ===================================================== the HTTP helpers
\* WATERS._get_point_indexing, WATERS._get_epa_downstream_navigation_response
\* (epa_waters.py) and Reach._download_raw_json_from_aw (reach.py), one
\* request per step.  http.requests counts the requests sent and
\* http.all_failed tells whether every answer so far was a non-200 status.
nav_max_attempts == 10   \* epa_waters.py:96
aw_max_attempts == 10    \* reach.py:357
HTTP_OK == 200
HTTP_SERVER_ERROR == 500

POINT_INDEXING == "_get_point_indexing"
NAVIGATION == "_get_epa_downstream_navigation_response"
DOWNLOAD == "_download_raw_json_from_aw"
HttpCalls == {POINT_INDEXING, NAVIGATION, DOWNLOAD}

\* what requests.get may answer: a status code and a body with or without content
StatusCodes == {HTTP_OK, 404, HTTP_SERVER_ERROR, 503}
HttpAnswers == [status : StatusCodes, content : {"json", "empty"}]

\* the resolver's variables at fixed values, for the helper specifications
ResolverAtRest ==
    /\ reach_points = << >>
    /\ geometry = NoneGeom
    /\ tracing_method = "None"
    /\ error = "None"
    /\ notes = ""
    /\ pc = "idle"
    /\ trace_status = FALSE
    /\ attempts = 0
    /\ fail_count = 0
    /\ putin_fs = NoneGeom
    /\ trace_resp = NoResp
    /\ trace_polyline = NoneGeom
    /\ resolves = 0
    /\ hist = NewHist

Sent(ans) == [http EXCEPT !.resp = ans, !.requests = @ + 1,
                          !.all_failed = @ /\ ans.status # HTTP_OK]

\* a helper is called (a fresh activation: the loop variables start over)
HttpCall(c) ==
    /\ http.state # "running"
    /\ http' = [HttpIdle EXCEPT !.call = c, !.state = "running"]
    /\ UNCHANGED <<resolver_vars, difficulty, gauge, reach_point, later_vars>>

\* epa_waters.py:33-38: one requests.get, then response.json() whatever the status
PointIndexingRequest(ans) ==
    /\ http.state = "running" /\ http.call = POINT_INDEXING
    /\ http' = IF ans.content = "json"
               THEN [Sent(ans) EXCEPT !.state = "returned", !.result = "json",
                                      !.status_code = ans.status]
               ELSE [Sent(ans) EXCEPT !.state = "raised", !.exception = "JSONDecodeError",
                                      !.status_code = ans.status]
    /\ UNCHANGED <<resolver_vars, difficulty, gauge, reach_point, later_vars>>

\* the loop test of epa_waters.py:96
NavigationLoopCond(h) == h.attempts < nav_max_attempts /\ h.status_code # HTTP_OK

\* epa_waters.py:96-109: one pass of the loop, and the return of the last
\* response when the loop test fails
NavigationRequest(ans) ==
    /\ http.state = "running" /\ http.call = NAVIGATION
    /\ NavigationLoopCond(http)
    /\ LET h == [Sent(ans) EXCEPT !.attempts = @ + 1, !.status_code = ans.status]
       IN  http' = IF NavigationLoopCond(h) THEN h
                   ELSE [h EXCEPT !.state = "returned", !.result = "resp"]
    /\ UNCHANGED <<resolver_vars, difficulty, gauge, reach_point, later_vars>>

\* the loop test of reach.py:357 (status_code is never assigned in the loop)
DownloadLoopCond(h) == h.attempts < aw_max_attempts /\ h.status_code # HTTP_OK

\* reach.py:357-367: one pass of the loop; formatting the message of the
\* final raise subscripts the Reach object, which has no __getitem__
DownloadRequest(ans) ==
    /\ http.state = "running" /\ http.call = DOWNLOAD
    /\ DownloadLoopCond(http)
    /\ http' =
         IF ans.status = HTTP_OK /\ ans.content = "json"
         THEN [Sent(ans) EXCEPT !.state = "returned", !.result = "json"]
         ELSE IF ans.status = HTTP_OK
         THEN [Sent(ans) EXCEPT !.state = "returned", !.result = "False"]
         ELSE IF ans.status = HTTP_SERVER_ERROR
         THEN [Sent(ans) EXCEPT !.state = "returned", !.result = "False"]
         ELSE LET h == [Sent(ans) EXCEPT !.attempts = @ + 1]
              IN  IF DownloadLoopCond(h) THEN h
                  ELSE [h EXCEPT !.state = "raised", !.exception = "TypeError"]
    /\ UNCHANGED <<resolver_vars, difficulty, gauge, reach_point, later_vars>>

InitHttp == ResolverAtRest /\ HelpersAtRest

NextHttp ==
    \/ \E c \in HttpCalls : HttpCall(c)
    \/ \E ans \in HttpAnswers : PointIndexingRequest(ans)
    \/ \E ans \in HttpAnswers : NavigationRequest(ans)
    \/ \E ans \in HttpAnswers : DownloadRequest(ans)

SpecHttp == InitHttp /\ [][NextHttp]_vars

\* ================================================ the difficulty parser
\* Reach._parse_difficulty_string and Reach._get_if_length (reach.py:369-383)
\* A string is the sequence of its characters.
Min(a, b) == IF a < b THEN a ELSE b

\* the character at position p, or "" past the end
At(s, p) == IF p >= 1 /\ p <= Len(s) THEN s[p] ELSE ""

\* [I|IV|V|VI|5\.\d] is a character class: one of I | V 5 . or a digit
CharClass == {"I", "|", "V", "5", ".", "0", "1", "2", "3", "4", "6", "7", "8", "9"}
\* [+|-] is a character class as well
ModClass == {"+", "|", "-"}

\* how many characters of the class follow one another from position p on
RECURSIVE ClassRun(_, _)
ClassRun(s, p) == IF At(s, p) \in CharClass THEN 1 + ClassRun(s, p + 1) ELSE 0

NoMatch == [matched |-> FALSE]

\* re.match of the pattern of reach.py:370-373 as the backtracking matcher
\* runs it.  Group 1 takes the whole leading run of class characters when
\* that run has 1 to 3 characters, a hyphen follows it and group 2 can start
\* after the hyphen; otherwise group 1 does not take part.  Groups 2 and 3
\* are greedy, and nothing after group 3 has to match.
re_match(s) ==
    LET r == ClassRun(s, 1)
        g1 == r >= 1 /\ r <= 3 /\ At(s, r + 1) = "-" /\ ClassRun(s, r + 2) >= 1
        p2 == IF g1 THEN r + 2 ELSE IF At(s, 1) = "-" THEN 2 ELSE 1
        r2 == ClassRun(s, p2)
        k2 == Min(r2, 3)
        e2 == IF At(s, p2 + k2) \in ModClass THEN p2 + k2 ELSE p2 + k2 - 1
        p3 == IF At(s, e2 + 1) = "(" THEN e2 + 2 ELSE e2 + 1
        k3 == Min(ClassRun(s, p3), 3)
        e3 == IF At(s, p3 + k3) \in ModClass THEN p3 + k3 ELSE p3 + k3 - 1
    IN  IF r2 = 0 THEN NoMatch
        ELSE [matched |-> TRUE,
              group1 |-> IF g1 THEN SubSeq(s, 1, r) ELSE NoneStr,
              group2 |-> SubSeq(s, p2, e2),
              group3 |-> SubSeq(s, p3, e3)]

\* reach.py:378-383 without the length test: the string comes back as it is
get_if_length_identity(match_string) == match_string

\* reach.py:378-383
get_if_length(match_string) ==
    IF match_string # NoneStr /\ Len(match_string) > 0 THEN match_string ELSE NoneStr

\* grade tokens: a class I .. VI or a decimal 5.x, by itself or with + or -
GradeBases == {<<"I">>, <<"I", "I", "I">>, <<"I", "V">>, <<"V">>, <<"5", ".", "8">>}
GradeModifiers == {<< >>, <<"+">>, <<"-">>}
GradeTokens == {b \o m : b \in GradeBases, m \in GradeModifiers}

\* 'A-B(C)' and its shorter forms 'A-B', 'B(C)' and 'B'
DifficultyForms ==
    [kind : {"grades"}, a : GradeTokens \cup {NoneStr}, b : GradeTokens,
     c : GradeTokens \cup {NoneStr}]
Combined(f) ==
    (IF f.a = NoneStr THEN << >> ELSE f.a \o <<"-">>) \o f.b
        \o (IF f.c = NoneStr THEN << >> ELSE <<"(">> \o f.c \o <<")">>)

\* strings with no grade at their start: '', 'none', 'N/A', '-', '(V)', '+IV'
MalformedStrings ==
    {<< >>, <<"n", "o", "n", "e">>, <<"N", "/", "A">>, <<"-">>, <<"(", "V", ")">>,
     <<"+", "I", "V">>}

Fields(d) == [difficulty_minimum |-> d.difficulty_minimum,
              difficulty_maximum |-> d.difficulty_maximum,
              difficulty_outlier |-> d.difficulty_outlier]

Parsed(d, s) ==
    LET match == re_match(s)
    IN  [d EXCEPT !.state = "returned",
                  !.difficulty_minimum = get_if_length(match.group1),
                  !.difficulty_maximum = get_if_length(match.group2),
                  !.difficulty_outlier = get_if_length(match.group3)]

\* the fields a Reach holds when the parser is called: those of __init__, or
\* those an earlier call for 'IV-V(V+)' stored
EarlierFields ==
    {Fields(DifficultyIdle),
     Fields(Parsed(DifficultyIdle, <<"I", "V", "-", "V", "(", "V", "+", ")">>))}

\* reach.py:369-376 with the fields cleared when nothing matches
parse_difficulty_string_clearing ==
    /\ difficulty.state = "idle"
    /\ LET match == re_match(difficulty.difficulty_combined)
           d == [difficulty EXCEPT !.before = Fields(difficulty)]
       IN  difficulty' =
             IF ~match.matched
             THEN [d EXCEPT !.state = "raised", !.difficulty_minimum = NoneStr,
                            !.difficulty_maximum = NoneStr, !.difficulty_outlier = NoneStr]
             ELSE Parsed(d, difficulty.difficulty_combined)
    /\ UNCHANGED <<resolver_vars, http, gauge, reach_point, later_vars>>

\* reach.py:369-376: match.group raises AttributeError when match is None,
\* before the first assignment
parse_difficulty_string ==
    /\ difficulty.state = "idle"
    /\ LET match == re_match(difficulty.difficulty_combined)
           d == [difficulty EXCEPT !.before = Fields(difficulty)]
       IN  difficulty' =
             IF ~match.matched
             THEN [d EXCEPT !.state = "raised"]
             ELSE Parsed(d, difficulty.difficulty_combined)
    /\ UNCHANGED <<resolver_vars, http, gauge, reach_point, later_vars>>

InitDifficulty ==
    /\ ResolverAtRest
    /\ LaterAtRest
    /\ http = HttpIdle
    /\ gauge = "None"
    /\ reach_point = "None"
    /\ \E e \in EarlierFields :
         \/ \E f \in DifficultyForms :
              difficulty = [DifficultyIdle EXCEPT
                              !.difficulty_combined = Combined(f), !.form = f,
                              !.difficulty_minimum = e.difficulty_minimum,
                              !.difficulty_maximum = e.difficulty_maximum,
                              !.difficulty_outlier = e.difficulty_outlier, !.before = e]
         \/ \E m \in MalformedStrings :
              difficulty = [DifficultyIdle EXCEPT
                              !.difficulty_combined = m, !.form.kind = "malformed",
                              !.difficulty_minimum = e.difficulty_minimum,
                              !.difficulty_maximum = e.difficulty_maximum,
                              !.difficulty_outlier = e.difficulty_outlier, !.before = e]

NextDifficulty == parse_difficulty_string

SpecDifficulty == InitDifficulty /\ [][NextDifficulty]_vars

\* ============================================== the gauge stage classifier
\* Reach.gauge_stage (reach.py:717-890).  Gauge values are whole numbers from
\* 0 up and None is NoneNum; gauge.r[i] is the slot gauge_r<i>.
metric_keys == 0 .. 9        \* gauge_r0 .. gauge_r9
low_keys == 0 .. 5           \* metric_keys[:6]
high_keys == 5 .. 9          \* metric_keys[5:]

\* list.sort() of a set of numbers
RECURSIVE SortSet(_)
SortSet(S) ==
    IF S = {} THEN << >>
    ELSE LET m == CHOOSE x \in S : \A y \in S : x <= y
         IN  <<m>> \o SortSet(S \ {m})

\* reach.py:722-726: the distinct values that are not None, ascending
get_metrics(g, keys) == SortSet({g.r[k] : k \in keys} \ {NoneNum})

\* 'not self.gauge_observation' read as 'is 0' only
Falsy_zero(v) == v = 0

\* 'not self.gauge_observation' (reach.py:735): None and 0 are both falsy
Falsy(v) == v = NoneNum \/ v = 0

\* the interval test with the lower boundary let in
IntervalOf_closed(metrics, observation) ==
    LET I == {i \in 1 .. (Len(metrics) - 1) :
                 metrics[i] <= observation /\ observation < metrics[i + 1]}
    IN  IF I = {} THEN 0 ELSE CHOOSE i \in I : TRUE

\* the i with metrics[i] < observation < metrics[i+1] (1-based), 0 if there is none
IntervalOf(metrics, observation) ==
    LET I == {i \in 1 .. (Len(metrics) - 1) :
                 metrics[i] < observation /\ observation < metrics[i + 1]}
    IN  IF I = {} THEN 0 ELSE CHOOSE i \in I : TRUE

labels_3 == <<"lower runnable", "higher runnable">>
labels_4 == <<"low", "medium", "high">>
labels_5_low == <<"very low", "medium low", "medium", "high">>
labels_5_high == <<"low", "medium", "medium high", "very high">>
\* the labels of reach.py:782-790 with those of the five-metric block first
labels_6_of_5 == <<"low", "medium", "medium high", "very high", "high">>
\* reach.py:782-790
labels_6 == <<"low", "medium low", "medium", "medium high", "high">>
labels_7_low == <<"very low", "low", "medium low", "medium", "medium high", "high">>
labels_7_high == <<"low", "medium low", "medium", "medium high", "high", "very high">>
labels_8 == <<"very low", "low", "medium low", "medium", "medium high", "high", "very high">>
labels_9_low == <<"extremely low", "very low", "low", "medium low", "medium", "medium high",
                  "high", "very high">>
labels_9_high == <<"very low", "low", "medium low", "medium", "medium high", "high",
                   "very high", "extremely high">>
labels_10 == <<"extremely low", "very low", "low", "medium low", "medium", "medium high",
               "high", "very high", "extremely high">>

\* the if blocks of reach.py:746-890 in their order: the number of metrics
\* a block is for, its further condition, and its labels by interval
StageBlocks(low_metrics, high_metrics) ==
    LET more_low == Len(low_metrics) > Len(high_metrics)
        more_high == Len(low_metrics) < Len(high_metrics)
    IN  << [len |-> 3, cond |-> TRUE, labels |-> labels_3],
           [len |-> 4, cond |-> TRUE, labels |-> labels_4],
           [len |-> 5, cond |-> more_low, labels |-> labels_5_low],
           [len |-> 5, cond |-> more_high, labels |-> labels_5_high],
           [len |-> 6, cond |-> TRUE, labels |-> labels_6],
           [len |-> 7, cond |-> more_low, labels |-> labels_7_low],
           [len |-> 7, cond |-> more_high, labels |-> labels_7_high],
           [len |-> 8, cond |-> TRUE, labels |-> labels_8],
           [len |-> 9, cond |-> more_low, labels |-> labels_9_low],
           [len |-> 9, cond |-> more_low, labels |-> labels_9_high],
           [len |-> 10, cond |-> TRUE, labels |-> labels_10] >>

\* reach.py:717-890; "None" is the None returned at line 730 or by falling
\* off the end of the method
gauge_stage(g) ==
    LET metrics == get_metrics(g, metric_keys)
        low_metrics == get_metrics(g, low_keys)
        high_metrics == get_metrics(g, high_keys)
        observation == g.gauge_observation
        blocks == StageBlocks(low_metrics, high_metrics)
        i == IntervalOf(metrics, observation)
        taken == {b \in 1 .. Len(blocks) :
                     blocks[b].len = Len(metrics) /\ blocks[b].cond /\ i # 0}
    IN  IF Len(metrics) = 0 THEN "None"
        ELSE IF Falsy(observation) THEN "no gauge reading"
        ELSE IF observation < metrics[1] THEN "too low"
        ELSE IF observation > metrics[Len(metrics)] THEN "too high"
        ELSE IF Len(metrics) = 2 \/ (Len(metrics) = 1 /\ Len(high_metrics) > 0)
        THEN "runnable"
        ELSE IF taken = {} THEN "None"
        ELSE blocks[CHOOSE b \in taken : \A c \in taken : b <= c].labels[i]

\* how the ten slots are filled: ascending odd values 1, 3, .. 19, ascending
\* even values 0, 2, .. 18, pairs of equal values, or descending values
SlotLayouts == {"odd", "even", "paired", "descending"}
SlotValue(layout, i) ==
    CASE layout = "odd" -> 2 * i + 1
      [] layout = "even" -> 2 * i
      [] layout = "paired" -> 4 * (i \div 2) + 1
      [] layout = "descending" -> 2 * (9 - i) + 1

min_keys == 0 .. 5           \* gauge_r0 .. gauge_r5 (reach.py:692)
max_keys == 4 .. 9           \* gauge_r4 .. gauge_r9 (reach.py:701)

\* reach.py:690-697: the least of the slots that are not None, or None
gauge_min(g) ==
    LET lst == {g.r[k] : k \in min_keys} \ {NoneNum}
    IN  IF lst = {} THEN NoneNum ELSE CHOOSE x \in lst : \A y \in lst : x <= y

\* reach.py:699-706: the greatest of the slots that are not None, or None
gauge_max(g) ==
    LET lst == {g.r[k] : k \in max_keys} \ {NoneNum}
    IN  IF lst = {} THEN NoneNum ELSE CHOOSE x \in lst : \A y \in lst : x >= y

\* what reading gauge_runnable gives: a TypeError, None, a number or a bool
Unread == [kind |-> "unread", bool |-> FALSE, number |-> NoneNum]
RaisedTypeError == [kind |-> "TypeError", bool |-> FALSE, number |-> NoneNum]
PyNone == [kind |-> "None", bool |-> FALSE, number |-> NoneNum]
PyNumber(n) == [kind |-> "number", bool |-> FALSE, number |-> n]
PyBool(b) == [kind |-> "bool", bool |-> b, number |-> NoneNum]

\* reach.py:708-715.  'a and b and c' is the first falsy operand, or c; the
\* chained comparison compares None with a number and so raises TypeError,
\* unless its first half is already False; 'has_all and is_between' is
\* has_all when that is falsy
gauge_runnable(g) ==
    LET lo == gauge_min(g)
        hi == gauge_max(g)
        observation == g.gauge_observation
        has_all == IF Falsy(lo) THEN lo ELSE IF Falsy(hi) THEN hi ELSE observation
    IN  IF lo = NoneNum \/ observation = NoneNum THEN RaisedTypeError
        ELSE IF ~(lo < observation)
        THEN (IF has_all = NoneNum THEN PyNone
              ELSE IF has_all = 0 THEN PyNumber(0) ELSE PyBool(FALSE))
        ELSE IF hi = NoneNum THEN RaisedTypeError
        ELSE IF has_all = 0 THEN PyNumber(0)
        ELSE PyBool(observation < hi)

\* the gauge fields of a Reach: each slot None or its value, the observation
\* None or a reading
GaugeInputs ==
    { [gauge_observation |-> o,
       r |-> [i \in metric_keys |-> IF i \in S THEN SlotValue(layout, i) ELSE NoneNum],
       state |-> "idle", stage |-> "None", runnable |-> Unread] :
        o \in {NoneNum} \cup (0 .. MaxGauge), S \in SUBSET metric_keys, layout \in SlotLayouts }

\* the property gauge_stage is read
GaugeStage ==
    /\ gauge.state = "idle"
    /\ gauge' = [gauge EXCEPT !.state = "returned", !.stage = gauge_stage(gauge)]
    /\ UNCHANGED <<resolver_vars, http, difficulty, reach_point, later_vars>>

\* the property gauge_runnable is read
GaugeRunnable ==
    /\ gauge.runnable = Unread
    /\ gauge' = [gauge EXCEPT !.runnable = gauge_runnable(gauge)]
    /\ UNCHANGED <<resolver_vars, http, difficulty, reach_point, later_vars>>

InitGauge ==
    /\ ResolverAtRest
    /\ LaterAtRest
    /\ http = HttpIdle
    /\ difficulty = DifficultyIdle
    /\ reach_point = "None"
    /\ gauge \in GaugeInputs

NextGauge == GaugeStage \/ GaugeRunnable

SpecGauge == InitGauge /\ [][NextGauge]_vars

\* ==================================================== a ReachPoint object
\* ReachPoint.__init__, the geometry / point and side_of_river setters and
\* ReachPoint.snap_to_nhdplus (reach.py:175-279).  The stored geometry is a
\* geometry object with its type; reach_point.op, .arg, .raised and .before
\* tell the last operation, the value handed to it, whether it raised and
\* the fields as they were when it started.
PointGeometry(p) == [type |-> "Point", x |-> p[1], y |-> p[2]]

\* what a caller may assign to geometry: points, other geometry types, None
AssignableGeometries ==
    {PointGeometry(Pt(x, 1)) : x \in 0 .. MaxX}
        \cup {Line(0, MaxX), [type |-> "Polygon"], [type |-> "MultiPoint"], NoneGeom}

\* what a caller may assign to side_of_river
SIDES == {"None", "left", "right"}
AssignableSides == SIDES \cup {"center", "Left", ""}

Stored(rp) == [geom |-> rp.geom, side_of_river |-> rp.side_of_river,
               nhdplus_measure |-> rp.nhdplus_measure,
               nhdplus_reach_id |-> rp.nhdplus_reach_id]

\* the record of an operation that starts on rp
Starting(rp, op, arg) == [rp EXCEPT !.op = op, !.arg = arg, !.raised = FALSE,
                                    !.before = Stored(rp)]

\* the geometry setter storing whatever it is given
geometry_setter_unchecked(rp, g) == [rp EXCEPT !.geom = g]

\* reach.py:229-238 (None has no attribute type, which raises as well)
geometry_setter(rp, g) ==
    IF g.type # "Point" THEN [rp EXCEPT !.raised = TRUE]
    ELSE [rp EXCEPT !.geom = g]

\* reach.py:247-252
side_of_river_setter(rp, side_of_river) ==
    IF side_of_river # "None" /\ side_of_river # "left" /\ side_of_river # "right"
    THEN [rp EXCEPT !.raised = TRUE]
    ELSE [rp EXCEPT !.side_of_river = side_of_river]

\* reach.py:175-192 called with a point and a valid side
NewReachPoint(g, side_of_river) ==
    [geom |-> g, side_of_river |-> side_of_river,
     nhdplus_measure |-> NoneNum, nhdplus_reach_id |-> NoneNum,
     op |-> "__init__", arg |-> g, raised |-> FALSE,
     before |-> [geom |-> NoneGeom, side_of_river |-> "None",
                 nhdplus_measure |-> NoneNum, nhdplus_reach_id |-> NoneNum]]

\* reach_point.geometry = g, or reach_point.point = g (reach.py:218-220)
SetGeometry(g) ==
    /\ reach_point' = geometry_setter(Starting(reach_point, "geometry", g), g)
    /\ UNCHANGED <<resolver_vars, http, difficulty, gauge, later_vars>>

\* reach_point.side_of_river = v
SetSideOfRiver(v) ==
    /\ reach_point' = side_of_river_setter(
                          Starting(reach_point, "side_of_river", [type |-> v]), v)
    /\ UNCHANGED <<resolver_vars, http, difficulty, gauge, later_vars>>

\* reach.py:254-279: the lookup may throw or find nothing, and a found point
\* is stored through the geometry setter
SnapToNhdplus(epa_point) ==
    /\ LET rp == Starting(reach_point, "snap_to_nhdplus", [type |-> epa_point.kind])
       IN  reach_point' =
             IF epa_point.kind = "throw" THEN [rp EXCEPT !.raised = TRUE]
             ELSE IF ~epa_point.found THEN rp
             ELSE LET set == geometry_setter(rp, PointGeometry(epa_point.geometry))
                  IN  IF set.raised THEN set
                      ELSE [set EXCEPT !.nhdplus_measure = epa_point.measure,
                                       !.nhdplus_reach_id = epa_point.id]
    /\ UNCHANGED <<resolver_vars, http, difficulty, gauge, later_vars>>

InitPoint ==
    /\ ResolverAtRest
    /\ LaterAtRest
    /\ http = HttpIdle
    /\ difficulty = DifficultyIdle
    /\ gauge = "None"
    /\ \E x \in 0 .. 1, side \in SIDES :
         reach_point = NewReachPoint(PointGeometry(Pt(x, 1)), side)

NextPoint ==
    \/ \E g \in AssignableGeometries : SetGeometry(g)
    \/ \E v \in AssignableSides : SetSideOfRiver(v)
    \/ \E epa_point \in SnapAnswers : SnapToNhdplus(epa_point)

SpecPoint == InitPoint /\ [][NextPoint]_vars

\* ============================================ put-in and take-out of a Reach
\* Reach._set_putin_takeout and the putin / takeout setters
\* (reach.py:978-1027).  The value assigned is an object of some class: a
\* ReachPoint, or anything else a caller may hand over.
AssignableAccesses ==
    [class : {"ReachPoint", "dict"},
     point : {ReachPoint(st, Pt(x, 1)) : st \in {"putin", "takeout", "intermediate"},
                                         x \in 0 .. MaxX}]

NoSetCall == [op |-> "None", raised |-> FALSE]

\* reach.py:993-1001, the statements after the two assert statements
Replaced(pts, access, access_type) ==
    SelectSeq(pts, LAMBDA pt : pt.subtype # access_type)
        \o << [access.point EXCEPT !.point_type = "access", !.subtype = access_type] >>

\* reach.py:978-1001: assert type(access) != ReachPoint, then
\* assert access_type != 'putin' and access_type != 'takeout'; a failed
\* assert raises AssertionError before the list is touched
set_putin_takeout(pts, access, access_type) ==
    IF ~(access.class # "ReachPoint") THEN [raised |-> TRUE, points |-> pts]
    ELSE IF ~(access_type # "putin" /\ access_type # "takeout")
    THEN [raised |-> TRUE, points |-> pts]
    ELSE [raised |-> FALSE, points |-> Replaced(pts, access, access_type)]

\* reach.putin = access (reach.py:1012-1014) and
\* reach.takeout = access (reach.py:1025-1027)
SetAccess(access_type, access) ==
    /\ LET r == set_putin_takeout(reach_points, access, access_type)
       IN  /\ reach_points' = r.points
           /\ set_call' = [op |-> access_type, raised |-> r.raised, access |-> access]
    /\ UNCHANGED <<geometry, tracing_method, error, notes, pc, trace_status, attempts,
                   fail_count, putin_fs, trace_resp, trace_polyline, resolves, hist>>
    /\ UNCHANGED <<http, difficulty, gauge, reach_point, split_call, geometry_request,
                   workers, replay>>

InitAccess ==
    /\ ResolverAtRest
    /\ http = HttpIdle
    /\ difficulty = DifficultyIdle
    /\ gauge = "None"
    /\ reach_point = "None"
    /\ split_call = "None"
    /\ geometry_request = "None"
    /\ workers = "None"
    /\ replay = "None"
    /\ set_call = NoSetCall

\* Reach._parse_aw_json (reach.py:516-543) appends the points of the record
LoadPoints(pts) ==
    /\ set_call = NoSetCall /\ reach_points = << >>
    /\ reach_points' = pts
    /\ UNCHANGED <<geometry, tracing_method, error, notes, pc, trace_status, attempts,
                   fail_count, putin_fs, trace_resp, trace_polyline, resolves, hist>>
    /\ UNCHANGED helper_vars

NextAccess ==
    \/ \E pts \in InitialReachPoints \ {<< >>} : LoadPoints(pts)
    \/ \E access \in AssignableAccesses : SetAccess("putin", access)
    \/ \E access \in AssignableAccesses : SetAccess("takeout", access)

SpecAccess == InitAccess /\ [][NextAccess]_vars

\* ====================================================== split and trim calls
\* Polyline.split_at_point and Polyline.trim_at_point
\* (geometry_monkeypatch.py:70-118) called with a polyline and a point of the
\* same spatial reference, shapely being installed: none of the checks of
\* lines 78-91 raises and neither does shapely.ops.split.
SplitLines == UNION {{Line(a, b) : b \in (a + 1) .. MaxX} : a \in 0 .. 1}
SplitPoints == {Pt(x, y) : x \in 0 .. MaxX, y \in 0 .. 1}

SplitInputs ==
    [line : SplitLines, point : SplitPoints, op : {"None"}, raised : {FALSE},
     result : {<< >>}]

\* line.split_at_point(point)
SplitAtPoint ==
    /\ split_call.op = "None"
    /\ split_call' = [split_call EXCEPT
                        !.op = "split_at_point",
                        !.result = split_at_point(split_call.line, split_call.point)]
    /\ UNCHANGED <<resolver_vars, http, difficulty, gauge, reach_point, set_call,
                   geometry_request, workers, replay>>

\* line.trim_at_point(point)
TrimAtPoint ==
    /\ split_call.op = "None"
    /\ split_call' = [split_call EXCEPT
                        !.op = "trim_at_point",
                        !.result = << trim_at_point(split_call.line, split_call.point) >>]
    /\ UNCHANGED <<resolver_vars, http, difficulty, gauge, reach_point, set_call,
                   geometry_request, workers, replay>>

InitSplit ==
    /\ ResolverAtRest
    /\ http = HttpIdle
    /\ difficulty = DifficultyIdle
    /\ gauge = "None"
    /\ reach_point = "None"
    /\ set_call = "None"
    /\ geometry_request = "None"
    /\ workers = "None"
    /\ replay = "None"
    /\ split_call \in SplitInputs

NextSplit == SplitAtPoint \/ TrimAtPoint

SpecSplit == InitSplit /\ [][NextSplit]_vars

\* ================================================== the geometry requests
\* _smooth_geometry._make_geometry_request (reach.py:73-112), called by
\* densify and simplify, one post per step.  geometry_request.posts counts
\* the posts sent.
geometry_max_attempts == 5   \* reach.py:99

\* what requests.post may do: throw, or answer with a status and a body that
\* holds the geometries or does not
GeometryAnswers ==
    {[kind |-> "throw", status |-> 0, body |-> "None"]}
        \cup [kind : {"resp"}, status : {HTTP_OK, HTTP_SERVER_ERROR},
              body : {"geometries", "error"}]

GeometryRequestIdle ==
    [op |-> "None", state |-> "idle", attempts |-> 0, status |-> NoneNum, posts |-> 0,
     patched |-> FALSE]

\* densify(in_geom) or simplify(in_geom) enters _make_geometry_request
MakeGeometryRequest(url_extension) ==
    /\ geometry_request.state # "running"
    /\ geometry_request' = [GeometryRequestIdle EXCEPT !.op = url_extension,
                                                      !.state = "running"]
    /\ UNCHANGED <<resolver_vars, http, difficulty, gauge, reach_point, set_call,
                   split_call, workers, replay>>

\* the loop test of reach.py:99
GeometryLoopCond(q) == q.attempts < geometry_max_attempts /\ q.status # HTTP_OK

\* reach.py:99-112: one pass of the loop.  A throw of post, of resp.json() or
\* of the subscripts is caught by the bare except, the only place where
\* attempts grows; otherwise the geometry is patched and status is assigned
GeometryPost(ans) ==
    /\ geometry_request.state = "running"
    /\ GeometryLoopCond(geometry_request)
    /\ geometry_request.posts < MaxPosts
    /\ LET sent == [geometry_request EXCEPT !.posts = @ + 1]
           q == IF ans.kind = "throw" \/ ans.body # "geometries"
                THEN [sent EXCEPT !.attempts = @ + 1]
                ELSE [sent EXCEPT !.patched = TRUE, !.status = ans.status]
       IN  geometry_request' = IF GeometryLoopCond(q) THEN q
                               ELSE [q EXCEPT !.state = "returned"]
    /\ UNCHANGED <<resolver_vars, http, difficulty, gauge, reach_point, set_call,
                   split_call, workers, replay>>

InitGeometryRequest ==
    /\ ResolverAtRest
    /\ http = HttpIdle
    /\ difficulty = DifficultyIdle
    /\ gauge = "None"
    /\ reach_point = "None"
    /\ set_call = "None"
    /\ split_call = "None"
    /\ workers = "None"
    /\ replay = "None"
    /\ geometry_request = GeometryRequestIdle

NextGeometryRequest ==
    \/ \E url_extension \in {"densify", "simplify"} : MakeGeometryRequest(url_extension)
    \/ \E ans \in GeometryAnswers : GeometryPost(ans)

SpecGeometryRequest == InitGeometryRequest /\ [][NextGeometryRequest]_vars

\* ============================================ a reach resolved once more
\* get_hydroline called again on a reach it has resolved (reach.py:1042-1201),
\* while every request it repeats is answered as in the first resolve.
\* replay.snap is the answer to the put-in snap, replay.log the answers of
\* the passes of the WATERS loop in their order, replay.pos the number of
\* passes of the resolve under way.  What a pass did not ask for is "unasked".
MaxReplay == 2

Unasked == [kind |-> "unasked"]

\* the requests one pass of the WATERS loop makes and their answers: the
\* trace always (line 1084), the snap onto the line when a line came back
\* (lines 1088-1091), the WATERS re-snap when that snap worked (line 1097),
\* the trim when the take-out counts as located (lines 1100-1105)
Asked(tr, geom_ok, epa_point, trim_ok) ==
    LET traced == tr.kind = "line"
        snapped == traced /\ geom_ok
        resnapped == snapped /\ epa_point.kind = "ok"
        to2 == IF resnapped THEN snap_to_nhdplus(takeout, epa_point) ELSE takeout
    IN  [tr |-> tr,
         geom |-> IF ~traced THEN "unasked" ELSE IF geom_ok THEN "ok" ELSE "throw",
         epa_point |-> IF snapped THEN epa_point ELSE Unasked,
         trim |-> IF ~(resnapped /\ Located(to2)) THEN "unasked"
                  ELSE IF trim_ok THEN "ok" ELSE "throw"]

\* a pass answered as the pass of the same rank in the first resolve
Replays(first, again) ==
    /\ again.tr = first.tr
    /\ first.geom = "unasked" \/ again.geom = "unasked" \/ again.geom = first.geom
    /\ first.epa_point = Unasked \/ again.epa_point = Unasked
          \/ again.epa_point = first.epa_point
    /\ first.trim = "unasked" \/ again.trim = "unasked" \/ again.trim = first.trim

other_vars == <<http, difficulty, gauge, reach_point, set_call, split_call,
                geometry_request, workers>>

\* the call is made again only on a reach the call before has resolved
ReplayGetHydroline ==
    /\ resolves > 0 => (pc = "done" /\ trace_status)
    /\ GetHydroline
    /\ replay' = [replay EXCEPT !.pos = 0]
    /\ UNCHANGED other_vars

ReplaySnapPutin(epa_point) ==
    /\ resolves > 1 => epa_point = replay.snap
    /\ SnapPutin(epa_point)
    /\ replay' = IF resolves = 1 THEN [replay EXCEPT !.snap = epa_point] ELSE replay
    /\ UNCHANGED other_vars

ReplayWatersAttempt(tr, geom_ok, epa_point, trim_ok) ==
    /\ WatersAttempt(tr, geom_ok, epa_point, trim_ok)
    /\ IF resolves = 1
       THEN /\ Len(replay.log) < MaxReplay
            /\ replay' = [replay EXCEPT !.log = Append(@, Asked(tr, geom_ok, epa_point, trim_ok)),
                                        !.pos = @ + 1]
       ELSE /\ replay.pos < Len(replay.log)
               => Replays(replay.log[replay.pos + 1], Asked(tr, geom_ok, epa_point, trim_ok))
            /\ replay' = [replay EXCEPT !.pos = @ + 1]
    /\ UNCHANGED other_vars

\* the hydrology requests: the first resolve of a resolved reach made none
ReplayHydrology ==
    /\ \/ \E w \in WatershedAnswers : HydroWatershed(w)
       \/ \E r \in HydroTraceAnswers : HydroAttempt(r)
       \/ \E snap_ok \in BOOLEAN, trim_ok \in BOOLEAN, smooth_ok \in BOOLEAN :
             HydroFinish(snap_ok, trim_ok, smooth_ok)
    /\ UNCHANGED <<replay, other_vars>>

InitReplay ==
    /\ reach_points \in InitialReachPoints
    /\ \E l \in InitialLines : geometry = l.geometry /\ tracing_method = l.tracing_method
    /\ error = "None"
    /\ notes = ""
    /\ pc = "idle"
    /\ trace_status = FALSE
    /\ attempts = 0
    /\ fail_count = 0
    /\ putin_fs = NoneGeom
    /\ trace_resp = NoResp
    /\ trace_polyline = NoneGeom
    /\ resolves = 0
    /\ hist = NewHist
    /\ http = HttpIdle
    /\ difficulty = DifficultyIdle
    /\ gauge = "None"
    /\ reach_point = "None"
    /\ set_call = "None"
    /\ split_call = "None"
    /\ geometry_request = "None"
    /\ workers = "None"
    /\ replay = [snap |-> Unasked, log |-> << >>, pos |-> 0]

NextReplay ==
    \/ ReplayGetHydroline
    \/ \E epa_point \in SnapAnswers : ReplaySnapPutin(epa_point)
    \/ \E tr \in TraceAnswers, geom_ok \in BOOLEAN, epa_point \in SnapAnswers, trim_ok \in BOOLEAN :
          ReplayWatersAttempt(tr, geom_ok, epa_point, trim_ok)
    \/ ReplayHydrology

SpecReplay == InitReplay /\ [][NextReplay]_vars

\* ================================================= two workers of a pool
\* Two worker processes of a multiprocessing.Pool (update_stages.py:21-49),
\* each holding the Reach it built and resolving it with get_hydroline
\* (reach.py:1042-1201).  A process has its own memory: the resolver's
\* variables are those of the worker on the processor, workers.active, and
\* workers.other is the memory of the worker that waits.  workers.alone[i]
\* is the reach of worker i as its own steps left it, and
\* workers.interleaved tells that the processor changed hands while both
\* calls were under way.
MaxWorkerCalls == 2

\* the fields of a Reach that get_hydroline assigns, and its points
ReachState ==
    [reach_points |-> reach_points, geometry |-> geometry,
     tracing_method |-> tracing_method, error |-> error, notes |-> notes]

\* the memory of a worker: its reach and the locals of its call
Memory ==
    [reach_points |-> reach_points, geometry |-> geometry,
     tracing_method |-> tracing_method, error |-> error, notes |-> notes,
     pc |-> pc, trace_status |-> trace_status, attempts |-> attempts,
     fail_count |-> fail_count, putin_fs |-> putin_fs, trace_resp |-> trace_resp,
     trace_polyline |-> trace_polyline, resolves |-> resolves, hist |-> hist]

UnderWay(at) == at \notin {"idle", "done", "raised"}

\* the answers the services give to the workers
WorkerSnapAnswers ==
    {[kind |-> "throw"], [kind |-> "ok", found |-> FALSE],
     [kind |-> "ok", found |-> TRUE, geometry |-> Pt(1, 0), measure |-> 1, id |-> 1]}

WorkerTraceAnswers == {[kind |-> "throw"], [kind |-> "line", line |-> Line(0, MaxX)]}

\* variant of Switch: the list of points is one list for both workers
Switch_shared ==
    /\ workers' = [workers EXCEPT !.active = 3 - @, !.other = Memory,
                                  !.interleaved = @ \/ (UnderWay(pc) /\ UnderWay(workers.other.pc))]
    /\ reach_points' = reach_points
    /\ geometry' = workers.other.geometry
    /\ tracing_method' = workers.other.tracing_method
    /\ error' = workers.other.error
    /\ notes' = workers.other.notes
    /\ pc' = workers.other.pc
    /\ trace_status' = workers.other.trace_status
    /\ attempts' = workers.other.attempts
    /\ fail_count' = workers.other.fail_count
    /\ putin_fs' = workers.other.putin_fs
    /\ trace_resp' = workers.other.trace_resp
    /\ trace_polyline' = workers.other.trace_polyline
    /\ resolves' = workers.other.resolves
    /\ hist' = workers.other.hist

\* the processor goes to the other worker: the memory in view becomes the
\* memory of that worker
Switch ==
    /\ workers' = [workers EXCEPT !.active = 3 - @, !.other = Memory,
                                  !.interleaved = @ \/ (UnderWay(pc) /\ UnderWay(workers.other.pc))]
    /\ reach_points' = workers.other.reach_points
    /\ geometry' = workers.other.geometry
    /\ tracing_method' = workers.other.tracing_method
    /\ error' = workers.other.error
    /\ notes' = workers.other.notes
    /\ pc' = workers.other.pc
    /\ trace_status' = workers.other.trace_status
    /\ attempts' = workers.other.attempts
    /\ fail_count' = workers.other.fail_count
    /\ putin_fs' = workers.other.putin_fs
    /\ trace_resp' = workers.other.trace_resp
    /\ trace_polyline' = workers.other.trace_polyline
    /\ resolves' = workers.other.resolves
    /\ hist' = workers.other.hist

\* a step of the worker on the processor
Stepped == workers' = [workers EXCEPT !.alone[workers.active] = ReachState']

rest_vars == <<http, difficulty, gauge, reach_point, set_call, split_call,
               geometry_request, replay>>

\* each worker has built a reach with both accesses and no line
InitWorkers ==
    /\ reach_points = << ReachPoint("putin", Pt(0, 1)), ReachPoint("takeout", Pt(MaxX - 1, 1)) >>
    /\ geometry = NoneGeom
    /\ tracing_method = "None"
    /\ error = "None"
    /\ notes = ""
    /\ pc = "idle"
    /\ trace_status = FALSE
    /\ attempts = 0
    /\ fail_count = 0
    /\ putin_fs = NoneGeom
    /\ trace_resp = NoResp
    /\ trace_polyline = NoneGeom
    /\ resolves = 0
    /\ hist = NewHist
    /\ http = HttpIdle
    /\ difficulty = DifficultyIdle
    /\ gauge = "None"
    /\ reach_point = "None"
    /\ set_call = "None"
    /\ split_call = "None"
    /\ geometry_request = "None"
    /\ replay = "None"
    /\ workers = [active |-> 1, other |-> Memory, alone |-> [i \in 1 .. 2 |-> ReachState],
                  interleaved |-> FALSE]

\* a worker resolves its reach once; the services are asked at most
\* MaxWorkerCalls times for a trace in each branch
NextWorkers ==
    \/ Switch /\ UNCHANGED rest_vars
    \/ resolves = 0 /\ GetHydroline /\ Stepped /\ UNCHANGED rest_vars
    \/ \E epa_point \in WorkerSnapAnswers :
          SnapPutin(epa_point) /\ Stepped /\ UNCHANGED rest_vars
    \/ \E tr \in WorkerTraceAnswers, geom_ok \in BOOLEAN, epa_point \in WorkerSnapAnswers,
          trim_ok \in BOOLEAN :
          /\ hist.nTrace < MaxWorkerCalls
          /\ WatersAttempt(tr, geom_ok, epa_point, trim_ok) /\ Stepped /\ UNCHANGED rest_vars
    \/ \E w \in WatershedAnswers : HydroWatershed(w) /\ Stepped /\ UNCHANGED rest_vars
    \/ \E r \in HydroTraceAnswers :
          /\ hist.nHydroTrace < MaxWorkerCalls
          /\ HydroAttempt(r) /\ Stepped /\ UNCHANGED rest_vars
    \/ \E snap_ok \in BOOLEAN, trim_ok \in BOOLEAN, smooth_ok \in BOOLEAN :
          HydroFinish(snap_ok, trim_ok, smooth_ok) /\ Stepped /\ UNCHANGED rest_vars

SpecWorkers == InitWorkers /\ [][NextWorkers]_vars








\* ------------------------------------------------------------------ claims
Ended == pc \in {"done", "raised"}

\* C1: get_hydroline never lets an exception escape, and every failed resolve
\* leaves error = true with a non-empty note.  Stated as the claim; the code
\* raises past the resolver (put-in snap, watershed call and set_putin are
\* outside every try block).
C1_NoExceptionEscapes ==
    /\ pc # "raised"
    /\ (pc = "done" /\ ~trace_status) => (error = "True" /\ notes # "")

\* C2: when the WATERS snap of the put-in answers not-found, the resolve never
\* calls the WATERS downstream trace.  Stated as the claim; the code tests the
\* measure and reach id kept from an earlier snap.
C2_NotFoundNeverTraces ==
    hist.putin_not_found => (hist.nTrace = 0 /\ pc # "waters_loop")

\* C3: one get_hydroline call makes at most 5 WATERS downstream traces.  Stated
\* as the claim; a take-out that is not located does not count as an attempt.
C3_AtMostFiveTraces == hist.nTrace <= max_attempts

\* C4: a reach lacking its put-in or its take-out: get_hydroline returns false
\* with error = true and the note about the missing accesses, calls no
\* service, and leaves geometry and tracing_method as they were.
C4_MissingAccessesFail ==
    (resolves > 0 /\ (~HasAccess(reach_points, "putin") \/ ~HasAccess(reach_points, "takeout")))
    => /\ pc = "done"
       /\ trace_status = FALSE
       /\ error = "True"
       /\ notes = NOTE_MISSING
       /\ ~hist.called
       /\ geometry = hist.geometry0
       /\ tracing_method = hist.tracing_method0

C4_Witness ==
    /\ resolves > 0
    /\ pc = "done"
    /\ ~HasAccess(reach_points, "takeout")
    /\ HasAccess(reach_points, "putin")
    /\ geometry # NoneGeom
    /\ error = "True"

\* the result of trimming line at pt: it starts where the line starts, and it
\* ends at pt when pt lies inside the line; otherwise it is the whole line
TrimmedAt(result, line, pt) ==
    /\ result.type = "Polyline"
    /\ First(result.paths) = First(line.paths)
    /\ IF OnInterior(pt, line)
       THEN /\ Last(result.paths) = pt
            /\ \A i \in 1..Len(result.paths) : result.paths[i][1] <= pt[1]
       ELSE result = line

C7_PutinNoteIsFinal ==
    (pc = "done" /\ hist.watershed_not_found)
    => (trace_status = FALSE /\ error = "True" /\ notes = NOTE_PUTIN)

\* C8: the hydrology trace is attempted at most 10 times in one resolve and not
\* again after its first success; when all 10 attempts throw, get_hydroline
\* returns false with error = true and the geometry the resolve started with.
C8_HydroTraceBounded ==
    /\ hist.nHydroTrace <= 10
    /\ hist.nHydroTrace = fail_count + (IF trace_resp # NoResp THEN 1 ELSE 0)
    /\ (trace_resp # NoResp) => (pc # "hydro_loop")
    /\ (pc = "done" /\ fail_count >= 10)
       => (trace_status = FALSE /\ error = "True" /\ geometry = hist.geometry0)

C8_Witness ==
    /\ pc = "done"
    /\ hist.nHydroTrace = 10
    /\ fail_count = 10
    /\ trace_resp = NoResp
    /\ error = "True"

\* C9: after a successful hydrology trace the take-out is snapped onto the
\* line, the line is trimmed there and smoothed exactly when it has more than
\* 6 coordinate values, and the resolve returns true with tracing_method the
\* hydrology value.  Stated as the claim; in the code a hydrology trace is
\* only ever run after a watershed snap that found nothing (a found point
\* raises at set_putin), and then the error flag makes it skip the result.
C9_HydroSuccessResolves ==
    (Ended /\ trace_resp # NoResp)
    => /\ pc = "done"
       /\ trace_status = TRUE
       /\ tracing_method = TRACE_HYDRO
       /\ LET line_geom == trim_at_point(trace_resp.line, takeout.geometry)
          IN geometry = IF CoordinatesSize(line_geom) > 6
                        THEN smooth_geometry(line_geom) ELSE line_geom

\* C10 as stated: after a WATERS trace that answered without flowlines, the
\* trace is not called again in that resolve.
C10_StructuralNotRetried == ~hist.retraced_after_zero

\* C10 as amended: a trace without flowlines raises, and the loop of
\* get_hydroline counts it as one of its 5 attempts like any other exception,
\* calling the trace again while fewer than 5 attempts have failed.
C10_StructuralCountsAsAttempt ==
    /\ hist.nZero <= attempts
    /\ attempts <= max_attempts
    /\ (hist.nZero > 0 /\ attempts < max_attempts /\ ~trace_status /\ ~Ended)
       => pc = "waters_loop"

C10_Witness ==
    /\ hist.retraced_after_zero
    /\ hist.nZero = max_attempts
    /\ pc = "hydro_watershed"

\* ----------------------------------------------------------------------
\* C11 (stated as the claim has it; the code violates it): an HTTP helper
\* call whose every answer was a non-200 status ends by raising, after
\* exactly its cap of requests: 10 for the snap lookup and the record
\* download, 5 for the downstream trace.  It never returns a value and never
\* gives up earlier.
C11_FailingCallsExhaustTheCap ==
    (http.state \in {"returned", "raised"} /\ http.all_failed)
        => /\ http.state = "raised"
           /\ http.requests = (IF http.call = NAVIGATION THEN 5 ELSE 10)

\* True when the parser was given 'A-B(C)' with all three tokens present
FullForm == difficulty.form.kind = "grades" /\ difficulty.form.a # NoneStr
                /\ difficulty.form.c # NoneStr
\* True when the parser was given a single token
SingleToken == difficulty.form.kind = "grades" /\ difficulty.form.a = NoneStr
                   /\ difficulty.form.c = NoneStr

\* ----------------------------------------------------------------------
\* C12 (stated as the claim has it; the code violates it): after parsing
\* 'A-B(C)' with A, B and C grade tokens, difficulty_minimum is A,
\* difficulty_maximum is B and difficulty_outlier is C.
C12_RangeWithOutlier ==
    (FullForm /\ difficulty.state # "idle")
        => /\ difficulty.state = "returned"
           /\ difficulty.difficulty_minimum = difficulty.form.a
           /\ difficulty.difficulty_maximum = difficulty.form.b
           /\ difficulty.difficulty_outlier = difficulty.form.c

\* ----------------------------------------------------------------------
\* C13: after parsing a single grade token, difficulty_maximum is the token
\* and difficulty_minimum and difficulty_outlier are None, not ''.
C13_SingleToken ==
    (SingleToken /\ difficulty.state # "idle")
        => /\ difficulty.state = "returned"
           /\ difficulty.difficulty_maximum = difficulty.form.b
           /\ difficulty.difficulty_minimum = NoneStr
           /\ difficulty.difficulty_outlier = NoneStr

\* 'III' has been parsed on a Reach whose fields held 'IV', 'V', 'V+'
C13_Witness ==
    /\ difficulty.state = "returned"
    /\ difficulty.difficulty_combined = <<"I", "I", "I">>
    /\ difficulty.before.difficulty_outlier = <<"V", "+">>
    /\ difficulty.difficulty_maximum = <<"I", "I", "I">>

\* ----------------------------------------------------------------------
\* C14: parsing a string that does not match the pattern raises, and the
\* three fields are what they were before the call.
C14_NoMatchRaises ==
    (difficulty.form.kind = "malformed" /\ difficulty.state # "idle")
        => /\ difficulty.state = "raised"
           /\ Fields(difficulty) = difficulty.before

\* 'N/A' was refused on a Reach whose fields held 'IV', 'V', 'V+'
C14_Witness ==
    /\ difficulty.state = "raised"
    /\ difficulty.difficulty_combined = <<"N", "/", "A">>
    /\ difficulty.difficulty_maximum = <<"V">>
    /\ difficulty.difficulty_outlier = <<"V", "+">>

\* the sorted distinct boundaries of the Reach under classification
Metrics == get_metrics(gauge, metric_keys)
\* the stage has been read
Classified == gauge.state = "returned"

\* ----------------------------------------------------------------------
\* C15 (stated as the claim has it; the code does otherwise): with a None
\* observation the stage is 'no gauge reading' whatever the ten slots hold,
\* all ten None included.
C15_NoReadingWhateverTheSlots ==
    (Classified /\ gauge.gauge_observation = NoneNum) => gauge.stage = "no gauge reading"

\* C15 as amended: with a None observation the stage is 'no gauge reading'
\* when at least one slot holds a value, and None when all ten slots are None.
C15_NoReadingWithBoundaries ==
    (Classified /\ gauge.gauge_observation = NoneNum)
        => gauge.stage = (IF Len(Metrics) = 0 THEN "None" ELSE "no gauge reading")

\* a None observation was classified against ten distinct boundaries
C15_Witness ==
    /\ Classified
    /\ gauge.gauge_observation = NoneNum
    /\ Len(Metrics) = 10
    /\ gauge.stage = "no gauge reading"

\* ----------------------------------------------------------------------
\* C16 (stated as the claim has it; the code does otherwise): with 6 distinct
\* boundaries an observation in the third interval, the third boundary itself
\* included, is 'medium'.
C16_ThirdIntervalWithBoundary ==
    (Classified /\ Len(Metrics) = 6 /\ Metrics[3] <= gauge.gauge_observation
        /\ gauge.gauge_observation < Metrics[4])
        => gauge.stage = "medium"

\* C16 as amended: with 6 distinct boundaries an observation strictly between
\* the third and the fourth is 'medium', and an observation equal to the
\* third boundary gets no label.
C16_ThirdIntervalStrict ==
    (Classified /\ Len(Metrics) = 6)
        => /\ (Metrics[3] < gauge.gauge_observation /\ gauge.gauge_observation < Metrics[4])
                 => gauge.stage = "medium"
           /\ gauge.gauge_observation = Metrics[3] => gauge.stage = "None"

\* observation 6 was classified against the boundaries 1, 3, 5, 7, 9, 11
C16_Witness ==
    /\ Classified
    /\ Metrics = <<1, 3, 5, 7, 9, 11>>
    /\ gauge.gauge_observation = 6
    /\ gauge.stage = "medium"

\* the observation is one of the boundaries
OnBoundary == \E i \in 1 .. Len(Metrics) : gauge.gauge_observation = Metrics[i]

LowBiased(n) == IF n = 5 THEN labels_5_low ELSE IF n = 7 THEN labels_7_low ELSE labels_9_low
HighBiased(n) == IF n = 5 THEN labels_5_high ELSE IF n = 7 THEN labels_7_high ELSE labels_9_high

\* ----------------------------------------------------------------------
\* C18 (stated as the claim has it; the code violates it): with 5, 7 or 9
\* distinct boundaries an observation strictly inside an interval gets the
\* label of that interval, from the low-biased sequence when slots r0..r5
\* hold more boundaries than slots r5..r9 and from the high-biased sequence
\* when they do not.
C18_OddCountsAlwaysLabelled ==
    LET n == Len(Metrics)
        i == IntervalOf(Metrics, gauge.gauge_observation)
        more_low == Len(get_metrics(gauge, low_keys)) > Len(get_metrics(gauge, high_keys))
    IN  (Classified /\ n \in {5, 7, 9} /\ i # 0)
            => gauge.stage = (IF more_low THEN LowBiased(n)[i] ELSE HighBiased(n)[i])

\* ----------------------------------------------------------------------
\* C19 (stated as the claim has it; the code violates it): with exactly 2
\* distinct boundaries an observation that is not None, not below the lower
\* and not above the higher boundary is 'runnable'.
C19_TwoBoundariesRunnable ==
    (Classified /\ Len(Metrics) = 2 /\ gauge.gauge_observation # NoneNum
        /\ Metrics[1] <= gauge.gauge_observation /\ gauge.gauge_observation <= Metrics[2])
        => gauge.stage = "runnable"

\* ----------------------------------------------------------------------
\* C20: whatever was assigned or snapped, the geometry of a ReachPoint is a
\* Point and its side_of_river is 'left', 'right' or None; assigning a
\* geometry that is not a Point, or any other side, raises and leaves the
\* stored value as it was.
C20_PointAndSideStayValid ==
    /\ reach_point.geom.type = "Point"
    /\ reach_point.side_of_river \in {"left", "right", "None"}
    /\ (reach_point.op = "geometry" /\ reach_point.arg.type # "Point")
          => (reach_point.raised /\ reach_point.geom = reach_point.before.geom)
    /\ (reach_point.op = "side_of_river" /\ reach_point.arg.type \notin {"left", "right", "None"})
          => (reach_point.raised
                /\ reach_point.side_of_river = reach_point.before.side_of_river)

\* a polyline was refused on a point that had been snapped and put on the left
C20_Witness ==
    /\ reach_point.op = "geometry"
    /\ reach_point.arg.type = "Polyline"
    /\ reach_point.raised
    /\ reach_point.nhdplus_measure # NoneNum
    /\ reach_point.geom = PointGeometry(Pt(MaxX, 0))
    /\ reach_point.side_of_river = "left"

\* ----------------------------------------------------------------------
\* C27 (stated as the claim has it; the code violates it): the stage is
\* 'no gauge reading' only when the observation is None; an observation of
\* 0 is compared with the boundaries.
C27_NoReadingOnlyForNone ==
    (Classified /\ gauge.stage = "no gauge reading") => gauge.gauge_observation = NoneNum

\* ----------------------------------------------------------------------
\* C30 (stated as the claim has it; the code violates it): gauge_runnable
\* never raises and is a bool, true exactly when the least of r0..r5, the
\* greatest of r4..r9 and the observation all exist and the observation lies
\* strictly between the two; when it is true the stage is not 'too low',
\* 'too high' or 'no gauge reading'.
C30_RunnableIsBoolean ==
    LET lo == gauge_min(gauge)
        hi == gauge_max(gauge)
        observation == gauge.gauge_observation
        expected == /\ lo # NoneNum /\ hi # NoneNum /\ observation # NoneNum
                    /\ lo < observation /\ observation < hi
    IN  gauge.runnable # Unread
            => /\ gauge.runnable = PyBool(expected)
               /\ (expected /\ Classified)
                     => gauge.stage \notin {"too low", "too high", "no gauge reading"}

\* ----------------------------------------------------------------------
\* C21 (stated as the claim has it; the code violates it): after a put-in
\* or take-out has been assigned, the reach holds at most one put-in and at
\* most one take-out, and the getter of the subtype assigned last returns
\* the point that was assigned.
C21_SetReplacesAccess ==
    set_call.op # "None"
        => /\ Cardinality(AccessIdx(reach_points, "putin")) <= 1
           /\ Cardinality(AccessIdx(reach_points, "takeout")) <= 1
           /\ set_call.access.class = "ReachPoint"
                 => /\ ~set_call.raised
                    /\ HasAccess(reach_points, set_call.op)
                    /\ reach_points[FirstIdx(reach_points, set_call.op)].geometry
                          = set_call.access.point.geometry

\* the point handed to the split lies on the line, its two ends included
OnLine(pt, line) ==
    /\ pt[2] = 0
    /\ First(line.paths)[1] <= pt[1]
    /\ pt[1] <= Last(line.paths)[1]

\* ----------------------------------------------------------------------
\* C22 (stated as the claim has it; the code violates it): a split or trim
\* at a point that does not lie on the line raises, and its result is never
\* the unsplit line.
C22_OffLineSplitRaises ==
    (split_call.op # "None" /\ ~OnLine(split_call.point, split_call.line))
        => /\ split_call.raised
           /\ split_call.result # << split_call.line >>

\* ----------------------------------------------------------------------
\* C29 (stated as the claim has it; the code violates it): a densify or
\* simplify request sends at most 5 posts, whatever the service answers.
C29_AtMostFivePosts == geometry_request.posts <= 5

\* C28: whenever get_hydroline returns true (it ended with trace_status
\* true), the reach's error flag is not true, whether the flag was set
\* earlier in the same resolve or by a previous resolve.
C28_SuccessWithoutError == (pc = "done" /\ trace_status) => error # "True"

\* C26: in the fallback branch, when the watershed snap finds a point and
\* moves the put-in to it, the basin trace is started next, from the
\* updated location and not from the location held before the snap.
C26_TraceFromUpdatedPutin ==
    [][(pc = "hydro_watershed" /\ putin'.geometry # putin.geometry)
          => (pc' = "hydro_loop" /\ putin_fs' = putin'.geometry)]_vars

\* C23: whenever get_hydroline resolves a reach (it returned true), the
\* last vertex of the resulting geometry is the take-out's final geometry,
\* in the primary branch as in the fallback branch.
C23_GeometryEndsAtTakeout ==
    (pc = "done" /\ trace_status)
    => /\ geometry.type = "Polyline"
       /\ Last(geometry.paths) = takeout.geometry

\* C24: a second resolve of an already resolved reach, the services
\* answering each request as they did the first time, ends with the same
\* geometry and the same tracing_method as the first resolve.
C24_SecondResolveSame ==
    (resolves = 2 /\ Ended)
    => /\ geometry = hist.geometry0
       /\ tracing_method = hist.tracing_method0

\* the reach of worker i, and the worker whose step a step is (0 when the
\* processor changes hands)
ReachOf(i) ==
    IF workers.active = i THEN ReachState
    ELSE [reach_points |-> workers.other.reach_points, geometry |-> workers.other.geometry,
          tracing_method |-> workers.other.tracing_method, error |-> workers.other.error,
          notes |-> workers.other.notes]

\* the part of a point a resolve may not change, and the points it may move
Identity(p) == [point_type |-> p.point_type, subtype |-> p.subtype]
Accesses(r) == {FirstIdx(r.reach_points, "putin"), FirstIdx(r.reach_points, "takeout")}

====
